---- MODULE Spec2Model ----
(***************************************************************************)
(* ViewerOutput (src/app/node/output/viewer/viewer.cpp): the node that     *)
(* couples the graph engine to a video and an audio interval cache.        *)
(* Time is counted in integer ticks of one common time base; a TimeRange   *)
(* [in, out) covers the ticks p with in <= p < out.                        *)
(***************************************************************************)
EXTENDS Integers, Sequences, FiniteSets, TLC

\* ------------------------------------------------------------------ bounds
MaxT == 2          \* the caches track the ticks 0 .. MaxT-1
MaxLen == 1        \* a producer's "length" is 0 .. MaxLen where events take any range
MaxJob == 1        \* job times are 0 .. MaxJob
MaxDepth == 2      \* the operation stack is explored within -1 .. MaxDepth

Points == 0 .. (MaxT - 1)
Ticks == 0 .. MaxT
Lengths == 0 .. MaxLen
JobTimes == 0 .. MaxJob
TimeVals == (0 - 2) .. (MaxLen + 1)
Elements == {0, 1}

\* ------------------------------------------------------- socket identities
kVideoParamsInput == "video_param_in"
kAudioParamsInput == "audio_param_in"
kTextureInput == "tex_in"
kSamplesInput == "samples_in"
kOtherInput == "other_in"

TrackedInputs == {kVideoParamsInput, kAudioParamsInput, kTextureInput, kSamplesInput}
Sockets == TrackedInputs \cup {kOtherInput}
ConnectableInputs == {kTextureInput, kSamplesInput}

VARIABLES
  operation_stack_,        \* int operation_stack_
  last_length_,            \* rational last_length_
  video_frame_cache_,      \* the video interval cache
  audio_playback_cache_,   \* the audio interval cache
  connection,              \* per connectable input: connected? and the producer's "length"
  pc,                      \* lifetime of the object: live, the destructor's steps, destroyed
  unmatched,               \* history: BeginOperation calls not yet matched by an EndOperation
  call,                    \* the last handler that ran, with its arguments
  trace,                   \* what that handler called and emitted, in order
  ret,                     \* what that handler returned
  streams,                 \* per medium the values of its parameter array, index 0 first
  outputs,                 \* the output sockets of the node
  timeline_points_,        \* TimelinePoints timeline_points_
  load_frames,             \* LoadCustom activations on the call stack
  job,                     \* the render job: its state, timestamps, hashes and disk entries
  pending,                 \* the content hashes whose asynchronous unit has not completed
  delivered                \* the FrameDownloaded callbacks made so far, in order

vars == <<operation_stack_, last_length_, video_frame_cache_, audio_playback_cache_,
          connection, pc, unmatched, call, trace, ret,
          streams, outputs, timeline_points_, load_frames, job, pending, delivered>>

\* What the cache coordination leaves alone.
registry == <<streams, outputs, timeline_points_, load_frames>>
rendering == <<job, pending, delivered>>

Min(a, b) == IF a <= b THEN a ELSE b
Max(a, b) == IF a >= b THEN a ELSE b
qMin(a, b) == IF b < a THEN b ELSE a
qMax(a, b) == IF a < b THEN b ELSE a

\* One record shape for calls and for events, unused fields are zero / "".
Ev(name, lo, hi, from, element, job_time) ==
  [ev |-> name, in |-> lo, out |-> hi, from |-> from, element |-> element, job_time |-> job_time]
Ev0(name) == Ev(name, 0, 0, "", 0, 0)

\* A return value: its kind, a number and, for a display string, the
\* medium it reports and the display it uses.
Ret(kind, index, medium, display) ==
  [kind |-> kind, index |-> index, medium |-> medium, display |-> display]
NoRet == Ret("void", 0, "", "")

Count(s, name) == Cardinality({i \in 1 .. Len(s) : s[i].ev = name})

\* ------------------------------------------------------------- TimeRange
\* A TimeRange keeps in <= out: its constructor orders the two ends.
TimeRange(a, b) == <<Min(a, b), Max(a, b)>>

\* ------------------------------------------------- the interval cache
\* Per tick a validity marker and the job time of the last write.
NoJob == [state |-> "none", times |-> {}, hash |-> <<>>, disk |-> {}]

DefaultMarker == [valid |-> FALSE, stamp |-> 0]
EmptyCache == [length |-> 0, marker |-> [p \in Points |-> DefaultMarker]]

IsValid(c, p) == p \in Points /\ c.marker[p].valid
MarkerAt(c, p) == IF p \in Points THEN c.marker[p] ELSE DefaultMarker

\* Invalidate(range, job_time): the range is clamped to [0, length); every
\* tick of it becomes invalid and remembers job_time.
CacheInvalidate(c, lo, hi, job_time) ==
  LET a == Max(0, lo)
      b == Min(c.length, hi)
  IN [c EXCEPT !.marker = [p \in Points |->
        IF a <= p /\ p < b THEN [valid |-> FALSE, stamp |-> job_time] ELSE c.marker[p]]]

\* Validate(range, job_time): a tick of the range becomes valid unless its
\* last write carries a newer job time (a stale completion is discarded).
CacheValidate(c, lo, hi, job_time) ==
  [c EXCEPT !.marker = [p \in Points |->
     IF lo <= p /\ p < hi /\ job_time >= c.marker[p].stamp
       THEN [valid |-> TRUE, stamp |-> job_time] ELSE c.marker[p]]]

\* SetLength(length): markers at or after the new length are dropped;
\* extending validates nothing.
CacheSetLength(c, length) ==
  [length |-> length,
   marker |-> [p \in Points |-> IF p < length THEN c.marker[p] ELSE DefaultMarker]]

\* Shift(from, to): every marker at or after `from` moves by to - from.
\* Moving forward leaves [from, to) without markers; moving backward
\* splices [to, from) out, the moved markers taking its place.
CacheShift(c, from, to) ==
  IF from = to THEN c
  ELSE [c EXCEPT !.marker = [p \in Points |->
          IF p >= to THEN MarkerAt(c, p - (to - from))
          ELSE IF p < from THEN c.marker[p]
          ELSE DefaultMarker]]

\* The ticks are bounded: a forward shift is explored only when no marker
\* is pushed past the last tick.
ShiftFits(c, from, to) ==
  \A p \in Points : (p >= from /\ p + (to - from) \notin Points) => c.marker[p] = DefaultMarker

\* ---------------------------------------------------------- ViewerOutput
kVideo == "video"
kAudio == "audio"
kSubtitle == "subtitle"

\* What a handler works on while it runs: both caches, the memoized length
\* and the calls and signals issued so far.
Handler == [video |-> video_frame_cache_, audio |-> audio_playback_cache_,
            last_length |-> last_length_, trace |-> <<>>]

Emit(h, e) == [h EXCEPT !.trace = Append(h.trace, e)]

GetLength == last_length_

GetCustomLength(type) == 0

IsInputConnected(input) == connection[input].connected

\* traverser.GenerateTable(GetConnectedOutput(input), TimeRange(0, 0)).Get("length")
ConnectedLength(input) == connection[input].length

\* A candidate that ignores the connected producer.
CandidateLength_NoFallback(type, input) == GetCustomLength(type)

\* The candidate length of one medium: the custom length, else the
\* connected producer's "length", else null.
CandidateLength(type, input) ==
  IF GetCustomLength(type) = 0 /\ IsInputConnected(input)
    THEN ConnectedLength(input)
    ELSE GetCustomLength(type)

\* Variant: the overall length resolved from the video candidate alone.
VerifyLengthOn_VideoOnly(h) ==
  LET h0 == Emit(h, Ev0("VerifyLength"))
  IN IF operation_stack_ # 0 THEN h0
     ELSE
       LET video_length == CandidateLength(kVideo, kTextureInput)
           audio_length == CandidateLength(kAudio, kSamplesInput)
           subtitle_length == GetCustomLength(kSubtitle)
           real_length == qMax(subtitle_length, video_length)
           h1 == Emit([h0 EXCEPT !.video = CacheSetLength(h0.video, video_length)],
                      Ev("video.SetLength", video_length, 0, "", 0, 0))
           h2 == Emit([h1 EXCEPT !.audio = CacheSetLength(h1.audio, audio_length)],
                      Ev("audio.SetLength", audio_length, 0, "", 0, 0))
       IN IF real_length # h2.last_length
            THEN Emit([h2 EXCEPT !.last_length = real_length],
                      Ev("LengthChanged", real_length, 0, "", 0, 0))
            ELSE h2

VerifyLengthOn(h) ==
  LET h0 == Emit(h, Ev0("VerifyLength"))
  IN IF operation_stack_ # 0 THEN h0
     ELSE
       LET video_length == CandidateLength(kVideo, kTextureInput)
           audio_length == CandidateLength(kAudio, kSamplesInput)
           subtitle_length == GetCustomLength(kSubtitle)
           real_length == qMax(subtitle_length, qMax(video_length, audio_length))
           h1 == Emit([h0 EXCEPT !.video = CacheSetLength(h0.video, video_length)],
                      Ev("video.SetLength", video_length, 0, "", 0, 0))
           h2 == Emit([h1 EXCEPT !.audio = CacheSetLength(h1.audio, audio_length)],
                      Ev("audio.SetLength", audio_length, 0, "", 0, 0))
       IN IF real_length # h2.last_length
            THEN Emit([h2 EXCEPT !.last_length = real_length],
                      Ev("LengthChanged", real_length, 0, "", 0, 0))
            ELSE h2

\* TimeRange invalidated_range(qMax(rational(), range.in()), qMin(GetLength(), range.out()))
InvalidatedRange(lo, hi) == TimeRange(qMax(0, lo), qMin(GetLength, hi))

\* Routing that sends the video-params socket to the audio cache.
InvalidateRouted_TextureOnly(h, r, from, job_time) ==
  IF from = kTextureInput
    THEN Emit([h EXCEPT !.video = CacheInvalidate(h.video, r[1], r[2], job_time)],
              Ev("video.Invalidate", r[1], r[2], "", 0, job_time))
    ELSE Emit([h EXCEPT !.audio = CacheInvalidate(h.audio, r[1], r[2], job_time)],
              Ev("audio.Invalidate", r[1], r[2], "", 0, job_time))

\* Routing that drops the event's job time.
InvalidateRouted_NoJobTime(h, r, from, job_time) ==
  IF from = kTextureInput \/ from = kVideoParamsInput
    THEN Emit([h EXCEPT !.video = CacheInvalidate(h.video, r[1], r[2], 0)],
              Ev("video.Invalidate", r[1], r[2], "", 0, 0))
    ELSE Emit([h EXCEPT !.audio = CacheInvalidate(h.audio, r[1], r[2], 0)],
              Ev("audio.Invalidate", r[1], r[2], "", 0, 0))

\* if (from == kTextureInput || from == kVideoParamsInput) video else audio
InvalidateRouted(h, r, from, job_time) ==
  IF from = kTextureInput \/ from = kVideoParamsInput
    THEN Emit([h EXCEPT !.video = CacheInvalidate(h.video, r[1], r[2], job_time)],
              Ev("video.Invalidate", r[1], r[2], "", 0, job_time))
    ELSE Emit([h EXCEPT !.audio = CacheInvalidate(h.audio, r[1], r[2], job_time)],
              Ev("audio.Invalidate", r[1], r[2], "", 0, job_time))

\* The length is re-verified only when a cache was invalidated.
LocalInvalidate_VerifyInside(h, lo, hi, from, job_time) ==
  LET invalidated_range == InvalidatedRange(lo, hi)
  IN IF from \in TrackedInputs /\ invalidated_range[1] # invalidated_range[2]
       THEN VerifyLengthOn(InvalidateRouted(h, invalidated_range, from, job_time))
       ELSE h

\* The body of InvalidateCache under operation_stack_ == 0.
LocalInvalidate(h, lo, hi, from, job_time) ==
  LET invalidated_range == InvalidatedRange(lo, hi)
  IN VerifyLengthOn(IF from \in TrackedInputs /\ invalidated_range[1] # invalidated_range[2]
                      THEN InvalidateRouted(h, invalidated_range, from, job_time)
                      ELSE h)

\* InvalidateCache without the test of the operation stack.
InvalidateCacheOn_NoStackTest(h, lo, hi, from, element, job_time) ==
  Emit(LocalInvalidate(h, lo, hi, from, job_time),
       Ev("super.InvalidateCache", lo, hi, from, element, job_time))

\* InvalidateCache forwarding the clamped range.
InvalidateCacheOn_ForwardClamped(h, lo, hi, from, element, job_time) ==
  Emit(IF operation_stack_ = 0 THEN LocalInvalidate(h, lo, hi, from, job_time) ELSE h,
       Ev("super.InvalidateCache", InvalidatedRange(lo, hi)[1], InvalidatedRange(lo, hi)[2],
          from, element, job_time))

InvalidateCacheOn(h, lo, hi, from, element, job_time) ==
  Emit(IF operation_stack_ = 0 THEN LocalInvalidate(h, lo, hi, from, job_time) ELSE h,
       Ev("super.InvalidateCache", lo, hi, from, element, job_time))

ShiftVideoCacheOn(h, from, to) ==
  Emit(Emit([h EXCEPT !.video = CacheShift(h.video, from, to)],
            Ev("video.Shift", from, to, "", 0, 0)),
       Ev("ShiftVideoEvent", from, to, "", 0, 0))

ShiftAudioCacheOn(h, from, to) ==
  Emit(Emit([h EXCEPT !.audio = CacheShift(h.audio, from, to)],
            Ev("audio.Shift", from, to, "", 0, 0)),
       Ev("ShiftAudioEvent", from, to, "", 0, 0))

\* ShiftCache that forgets the audio cache.
ShiftCacheOn_VideoOnly(h, from, to) == ShiftVideoCacheOn(h, from, to)

ShiftCacheOn(h, from, to) == ShiftAudioCacheOn(ShiftVideoCacheOn(h, from, to), from, to)

\* A handler's result becomes the next state.
Commit(h) ==
  /\ video_frame_cache_' = h.video
  /\ audio_playback_cache_' = h.audio
  /\ last_length_' = h.last_length
  /\ trace' = h.trace

Live == pc = "live"

\* ---------------------------------------------------------------- actions
InvalidateCache(lo, hi, from, element, job_time) ==
  /\ Live
  /\ Commit(InvalidateCacheOn(Handler, lo, hi, from, element, job_time))
  /\ call' = Ev("InvalidateCache", lo, hi, from, element, job_time)
  /\ UNCHANGED <<operation_stack_, connection, pc, unmatched, ret, registry, rendering>>

VerifyLength ==
  /\ Live
  /\ Commit(VerifyLengthOn(Handler))
  /\ call' = Ev0("VerifyLength")
  /\ UNCHANGED <<operation_stack_, connection, pc, unmatched, ret, registry, rendering>>

ShiftVideoCache(from, to) ==
  /\ Live
  /\ ShiftFits(video_frame_cache_, from, to)
  /\ Commit(ShiftVideoCacheOn(Handler, from, to))
  /\ call' = Ev("ShiftVideoCache", from, to, "", 0, 0)
  /\ UNCHANGED <<operation_stack_, connection, pc, unmatched, ret, registry, rendering>>

ShiftAudioCache(from, to) ==
  /\ Live
  /\ ShiftFits(audio_playback_cache_, from, to)
  /\ Commit(ShiftAudioCacheOn(Handler, from, to))
  /\ call' = Ev("ShiftAudioCache", from, to, "", 0, 0)
  /\ UNCHANGED <<operation_stack_, connection, pc, unmatched, ret, registry, rendering>>

ShiftCache(from, to) ==
  /\ Live
  /\ ShiftFits(video_frame_cache_, from, to)
  /\ ShiftFits(audio_playback_cache_, from, to)
  /\ Commit(ShiftCacheOn(Handler, from, to))
  /\ call' = Ev("ShiftCache", from, to, "", 0, 0)
  /\ UNCHANGED <<operation_stack_, connection, pc, unmatched, ret, registry, rendering>>

\* operation_stack_++; super::BeginOperation()
BeginOperationStep ==
  /\ operation_stack_ < MaxDepth
  /\ operation_stack_' = operation_stack_ + 1
  /\ unmatched' = unmatched + 1
  /\ trace' = <<Ev0("super.BeginOperation")>>
  /\ call' = Ev0("BeginOperation")
  /\ UNCHANGED <<last_length_, video_frame_cache_, audio_playback_cache_, connection, ret, registry, rendering>>

\* operation_stack_--; super::EndOperation()
EndOperationStep ==
  /\ operation_stack_ > 1 - MaxDepth
  /\ operation_stack_' = operation_stack_ - 1
  /\ unmatched' = IF unmatched > 0 THEN unmatched - 1 ELSE 0
  /\ trace' = <<Ev0("super.EndOperation")>>
  /\ call' = Ev0("EndOperation")
  /\ UNCHANGED <<last_length_, video_frame_cache_, audio_playback_cache_, connection, ret, registry, rendering>>

BeginOperation == Live /\ BeginOperationStep /\ UNCHANGED pc

EndOperation == Live /\ EndOperationStep /\ UNCHANGED pc

\* The graph engine connects a producer whose "length" is len, then notifies.
InputConnectedEvent(input, len) ==
  /\ Live
  /\ ~connection[input].connected
  /\ connection' = [connection EXCEPT ![input] = [connected |-> TRUE, length |-> len]]
  /\ trace' = (IF input = kTextureInput THEN <<Ev0("TextureInputChanged")>> ELSE <<>>)
                 \o <<Ev("super.InputConnectedEvent", 0, 0, input, 0, 0)>>
  /\ call' = Ev("InputConnectedEvent", len, 0, input, 0, 0)
  /\ UNCHANGED <<operation_stack_, last_length_, video_frame_cache_, audio_playback_cache_, pc, unmatched, ret, registry, rendering>>

InputDisconnectedEvent(input) ==
  /\ Live
  /\ connection[input].connected
  /\ connection' = [connection EXCEPT ![input] = [connected |-> FALSE, length |-> 0]]
  /\ trace' = (IF input = kTextureInput THEN <<Ev0("TextureInputChanged")>> ELSE <<>>)
                 \o <<Ev("super.InputDisconnectedEvent", 0, 0, input, 0, 0)>>
  /\ call' = Ev("InputDisconnectedEvent", 0, 0, input, 0, 0)
  /\ UNCHANGED <<operation_stack_, last_length_, video_frame_cache_, audio_playback_cache_, pc, unmatched, ret, registry, rendering>>

\* A render completion marks [lo, hi) of one cache as rendered by job job_time.
Validate(type, lo, hi, job_time) ==
  /\ Live
  /\ 0 <= lo /\ lo < hi
  /\ IF type = kVideo
       THEN /\ hi <= video_frame_cache_.length
            /\ video_frame_cache_' = CacheValidate(video_frame_cache_, lo, hi, job_time)
            /\ UNCHANGED audio_playback_cache_
       ELSE /\ hi <= audio_playback_cache_.length
            /\ audio_playback_cache_' = CacheValidate(audio_playback_cache_, lo, hi, job_time)
            /\ UNCHANGED video_frame_cache_
  /\ trace' = <<Ev("Validate", lo, hi, type, 0, job_time)>>
  /\ call' = Ev("Validate", lo, hi, type, 0, job_time)
  /\ UNCHANGED <<operation_stack_, last_length_, connection, pc, unmatched, ret, registry, rendering>>

\* ~ViewerOutput: BeginOperation(); DisconnectAll(); EndOperation();
DestructorBegin ==
  /\ pc = "live"
  /\ BeginOperationStep
  /\ pc' = "dtor_begun"

DestructorDisconnectAll ==
  /\ pc = "dtor_begun"
  /\ connection' = [i \in ConnectableInputs |-> [connected |-> FALSE, length |-> 0]]
  /\ trace' = (IF connection[kTextureInput].connected THEN <<Ev0("TextureInputChanged")>> ELSE <<>>)
                 \o <<Ev0("DisconnectAll")>>
  /\ call' = Ev0("DisconnectAll")
  /\ pc' = "dtor_disconnected"
  /\ UNCHANGED <<operation_stack_, last_length_, video_frame_cache_, audio_playback_cache_, unmatched, ret, registry, rendering>>

DestructorEnd ==
  /\ pc = "dtor_disconnected"
  /\ EndOperationStep
  /\ pc' = "destroyed"

\* Control returns to the caller: the record of the handler is dropped.
Idle == call.ev = "idle"

Return ==
  /\ ~Idle
  /\ call' = Ev0("idle")
  /\ trace' = <<>>
  /\ load_frames = 0
  /\ ret' = NoRet
  /\ UNCHANGED <<operation_stack_, last_length_, video_frame_cache_, audio_playback_cache_,
                 connection, pc, unmatched, registry, rendering>>

\* ------------------------------------------------------- specification
Init ==
  /\ operation_stack_ = 0
  /\ last_length_ = 0
  /\ video_frame_cache_ = EmptyCache
  /\ audio_playback_cache_ = EmptyCache
  /\ connection = [i \in ConnectableInputs |-> [connected |-> FALSE, length |-> 0]]
  /\ pc = "live"
  /\ unmatched = 0
  /\ call = Ev0("idle")
  /\ trace = <<>>
  /\ ret = NoRet
  /\ streams = [t \in {"video", "audio"} |-> <<>>]
  /\ outputs = {}
  /\ timeline_points_ = "empty"
  /\ load_frames = 0
  /\ job = NoJob
  /\ pending = {}
  /\ delivered = <<>>

\* The job times of the events the coordinator is driven with: the oldest
\* and the newest.
EventJobTimes == {0, MaxJob}

\* The handlers run one at a time, each to completion.
Next ==
  \/ Idle /\ \E lo \in TimeVals, hi \in TimeVals, from \in Sockets, element \in Elements, job_time \in EventJobTimes :
               lo <= hi /\ InvalidateCache(lo, hi, from, element, job_time)
  \/ Idle /\ VerifyLength
  \/ Idle /\ BeginOperation
  \/ Idle /\ EndOperation
  \/ Idle /\ \E input \in ConnectableInputs, len \in Lengths : InputConnectedEvent(input, len)
  \/ Idle /\ \E input \in ConnectableInputs : InputDisconnectedEvent(input)
  \/ Idle /\ DestructorBegin
  \/ Idle /\ DestructorDisconnectAll
  \/ Idle /\ DestructorEnd
  \/ Return

Spec == Init /\ [][Next]_vars

\* Job times: invalidations of the video cache racing with render
\* completions for it; `call` and `trace` keep the previous operation.
NextJob ==
  \/ InputConnectedEvent(kTextureInput, MaxT)
  \/ \E lo \in Ticks, hi \in Ticks, from \in {kTextureInput, kVideoParamsInput}, job_time \in JobTimes :
       lo <= hi /\ InvalidateCache(lo, hi, from, 0, job_time)
  \/ \E lo \in Ticks, hi \in Ticks, job_time \in JobTimes : Validate(kVideo, lo, hi, job_time)

SpecJob == Init /\ [][NextJob]_vars

\* Shifts of caches that hold rendered content.
NextShift ==
  \/ Idle /\ \E input \in ConnectableInputs : InputConnectedEvent(input, MaxT)
  \/ Idle /\ VerifyLength
  \/ Idle /\ \E type \in {kVideo, kAudio}, lo \in Ticks, hi \in Ticks, job_time \in JobTimes :
               Validate(type, lo, hi, job_time)
  \/ Idle /\ \E from \in Ticks, to \in Ticks : ShiftVideoCache(from, to)
  \/ Idle /\ \E from \in Ticks, to \in Ticks : ShiftAudioCache(from, to)
  \/ Idle /\ \E from \in Ticks, to \in Ticks : ShiftCache(from, to)
  \/ Return

SpecShift == Init /\ [][NextShift]_vars

\* ------------------------------------------------------- stream registry
MaxStreams == 2
MaxRecursion == 3

Media == {kVideo, kAudio}
TrackTypes == {kVideo, kAudio, kSubtitle}
Sizes == 0 .. MaxStreams

\* A stream's parameters, reduced to what the queries below read of them.
VideoValues == [valid : BOOLEAN, enabled : BOOLEAN, still : BOOLEAN]
AudioValues == [valid : BOOLEAN, enabled : BOOLEAN, still : {FALSE}]
ValuesOf(type) == IF type = kVideo THEN VideoValues ELSE AudioValues

\* A null QVariant reads back as default-constructed parameters: not valid.
NullValues(type) == {v \in ValuesOf(type) : ~v.valid /\ ~v.still}
DefaultValue == [valid |-> FALSE, enabled |-> FALSE, still |-> FALSE]

ParamsInput(type) == IF type = kVideo THEN kVideoParamsInput ELSE kAudioParamsInput
TypeOfInput(input) == IF input = kVideoParamsInput THEN kVideo ELSE kAudio

\* What a registry handler works on while it runs.
Registry == [streams |-> streams, outputs |-> outputs, trace |-> <<>>]

InputArraySize(r, id) == Len(r.streams[TypeOfInput(id)])

\* Track::Reference(type, i)
Reference(type, i) == <<type, i>>

AddOutput(r, type, i) ==
  [r EXCEPT !.outputs = @ \cup {Reference(type, i)},
            !.trace = Append(@, Ev("AddOutput", i, 0, type, 0, 0))]

RemoveOutput(r, type, i) ==
  [r EXCEPT !.outputs = @ \ {Reference(type, i)},
            !.trace = Append(@, Ev("RemoveOutput", i, 0, type, 0, 0))]

RECURSIVE AddOutputs(_, _, _, _)
AddOutputs(r, type, i, new_size) ==
  IF i < new_size THEN AddOutputs(AddOutput(r, type, i), type, i + 1, new_size) ELSE r

RECURSIVE RemoveOutputs(_, _, _, _)
RemoveOutputs(r, type, i, old_size) ==
  IF i < old_size THEN RemoveOutputs(RemoveOutput(r, type, i), type, i + 1, old_size) ELSE r

\* Variant: a shrink that leaves the socket at new_size in place.
InputResizedOn_KeepsOne(r, input, old_size, new_size) ==
  IF input = kVideoParamsInput \/ input = kAudioParamsInput
    THEN LET type == TypeOfInput(input)
         IN  IF new_size > old_size THEN AddOutputs(r, type, old_size, new_size)
             ELSE IF new_size < old_size THEN RemoveOutputs(r, type, new_size + 1, old_size)
             ELSE r
    ELSE r

\* Variant: a grow that counts from the sockets present, not from old_size.
InputResizedOn_FromPresent(r, input, old_size, new_size) ==
  IF input = kVideoParamsInput \/ input = kAudioParamsInput
    THEN LET type == TypeOfInput(input)
             present == Cardinality({o \in r.outputs : o[1] = type})
         IN  IF new_size > old_size
               THEN AddOutputs(r, type, present, present + (new_size - old_size))
             ELSE IF new_size < old_size THEN RemoveOutputs(r, type, new_size, old_size)
             ELSE r
    ELSE r

InputResizedOn(r, input, old_size, new_size) ==
  IF input = kVideoParamsInput \/ input = kAudioParamsInput
    THEN LET type == TypeOfInput(input)
         IN  IF new_size > old_size THEN AddOutputs(r, type, old_size, new_size)
             ELSE IF new_size < old_size THEN RemoveOutputs(r, type, new_size, old_size)
             ELSE r
    ELSE r

\* The InputArraySizeChanged signal, connected to InputResized.
InputArraySizeChanged(r, input, old_size, new_size) ==
  InputResizedOn([r EXCEPT !.trace = Append(@, Ev("InputArraySizeChanged", old_size, new_size, input, 0, 0))],
                 input, old_size, new_size)

\* The array of an input takes a new size and announces it.
InputArrayResizeOn(r, id, new_size, fill) ==
  LET type == TypeOfInput(id)
      old == r.streams[type]
      old_size == Len(old)
      resized == [i \in 1 .. new_size |-> IF i <= old_size THEN old[i] ELSE fill]
  IN  IF new_size = old_size THEN r
      ELSE InputArraySizeChanged([r EXCEPT !.streams[type] = resized], id, old_size, new_size)

InputArrayAppend(r, id) == InputArrayResizeOn(r, id, InputArraySize(r, id) + 1, DefaultValue)

SetStandardValue(r, id, value, index) ==
  [r EXCEPT !.streams[TypeOfInput(id)][index + 1] = value,
            !.trace = Append(@, Ev("SetStandardValue", index, 0, id, 0, 0))]

\* Variant: the value is written before the array has grown.
AddStreamOn_ValueFirst(r, type, value) ==
  IF type = kVideo \/ type = kAudio
    THEN LET id == ParamsInput(type)
             index == InputArraySize(r, id)
             written == [r EXCEPT !.trace = Append(@, Ev("SetStandardValue", index, 0, id, 0, 0))]
             grown == InputArrayResizeOn(written, id, index + 1, value)
         IN  [r |-> grown, index |-> index]
    ELSE [r |-> r, index |-> 0 - 1]

AddStreamOn(r, type, value) ==
  IF type = kVideo \/ type = kAudio
    THEN LET id == ParamsInput(type)
             index == InputArraySize(r, id)
         IN  [r |-> SetStandardValue(InputArrayAppend(r, id), id, value, index), index |-> index]
    ELSE [r |-> r, index |-> 0 - 1]

CommitRegistry(r) ==
  /\ streams' = r.streams
  /\ outputs' = r.outputs
  /\ trace' = r.trace

\* ------------------------------------------------- duration() and rate()
kTimecodeDropFrame == "DropFrame"
kTimecodeNonDropFrame == "NonDropFrame"
kTimecodeSeconds == "Seconds"
kTimecodeFrames == "Frames"
Displays == {kTimecodeDropFrame, kTimecodeNonDropFrame, kTimecodeSeconds, kTimecodeFrames}

EmptyString == Ret("string", 0 - 1, "", "")

\* The position (from 1) of the first enabled stream of a medium, 0 if none.
FirstEnabled(type) ==
  LET s == streams[type]
      enabled == {i \in 1 .. Len(s) : s[i].enabled}
  IN  IF enabled = {} THEN 0 ELSE CHOOSE i \in enabled : \A j \in enabled : i <= j

\* GetFirstEnabledVideoStream() / GetFirstEnabledAudioStream(): the first
\* enabled parameters, default-constructed ones if there are none.
GetFirstEnabledStream(type) ==
  IF FirstEnabled(type) = 0 THEN DefaultValue ELSE streams[type][FirstEnabled(type)]

HasEnabledVideoStreams == GetFirstEnabledStream(kVideo).valid
HasEnabledAudioStreams == GetFirstEnabledStream(kAudio).valid

duration(display) ==
  LET video == GetFirstEnabledStream(kVideo)
      audio == GetFirstEnabledStream(kAudio)
  IN  IF video.valid /\ ~video.still
        THEN Ret("string", FirstEnabled(kVideo) - 1, kVideo, display)
      ELSE IF audio.valid
        THEN Ret("string", FirstEnabled(kAudio) - 1, kAudio,
                 IF display = kTimecodeDropFrame \/ display = kTimecodeNonDropFrame
                   THEN kTimecodeSeconds ELSE display)
      ELSE EmptyString

rate ==
  IF HasEnabledVideoStreams
    THEN IF ~GetFirstEnabledStream(kVideo).still
           THEN Ret("string", FirstEnabled(kVideo) - 1, kVideo, "FPS")
           ELSE EmptyString
  ELSE IF HasEnabledAudioStreams
    THEN Ret("string", FirstEnabled(kAudio) - 1, kAudio, "Hz")
  ELSE EmptyString

\* -------------------------------------------------------- registry actions
coordination == <<operation_stack_, last_length_, video_frame_cache_, audio_playback_cache_,
                  connection, pc, unmatched>>

AddStream(type, value) ==
  /\ Live
  /\ type \in Media => Len(streams[type]) < MaxStreams
  /\ LET a == AddStreamOn(Registry, type, value)
     IN  /\ CommitRegistry(a.r)
         /\ ret' = Ret("int", a.index, "", "")
  /\ call' = Ev("AddStream", 0, 0, type, 0, 0)
  /\ UNCHANGED <<coordination, timeline_points_, load_frames, rendering>>

\* The editor resizes a parameter array.
InputArrayResize(id, new_size, fill) ==
  /\ Live
  /\ new_size # InputArraySize(Registry, id)
  /\ CommitRegistry(InputArrayResizeOn(Registry, id, new_size, fill))
  /\ call' = Ev("InputArrayResize", InputArraySize(Registry, id), new_size, id, 0, 0)
  /\ UNCHANGED <<coordination, ret, timeline_points_, load_frames, rendering>>

InputResized(input, old_size, new_size) ==
  /\ Live
  /\ CommitRegistry(InputResizedOn(Registry, input, old_size, new_size))
  /\ call' = Ev("InputResized", old_size, new_size, input, 0, 0)
  /\ UNCHANGED <<coordination, ret, timeline_points_, load_frames, rendering>>

\* The notification the previous handler has just served.
Notified(input, old_size, new_size) ==
  \/ \E i \in 1 .. Len(trace) : trace[i] = Ev("InputArraySizeChanged", old_size, new_size, input, 0, 0)
  \/ call = Ev("InputResized", old_size, new_size, input, 0, 0)

Duration(display) ==
  /\ Live
  /\ call' = Ev("duration", 0, 0, display, 0, 0)
  /\ trace' = <<>>
  /\ ret' = duration(display)
  /\ UNCHANGED <<coordination, registry, rendering>>

Rate ==
  /\ Live
  /\ call' = Ev0("rate")
  /\ trace' = <<>>
  /\ ret' = rate
  /\ UNCHANGED <<coordination, registry, rendering>>

\* ------------------------------------------------ LoadCustom / SaveCustom
ElementNames == {"points", "other"}

\* LoadCustom is entered for the element the reader stands on.
LoadCustom(name) ==
  /\ Live
  /\ load_frames = 0
  /\ call' = Ev("LoadCustom", 0, 0, name, 0, 0)
  /\ IF name = "points"
       THEN /\ timeline_points_' = "loaded"
            /\ trace' = <<Ev0("timeline_points_.Load")>>
            /\ ret' = Ret("bool", 1, "", "")
            /\ UNCHANGED load_frames
       ELSE /\ load_frames' = 1
            /\ trace' = <<>>
            /\ UNCHANGED <<timeline_points_, ret>>
  /\ UNCHANGED <<coordination, streams, outputs, rendering>>

\* The else branch: LoadCustom calls LoadCustom with the same reader.
LoadCustomRecurse ==
  /\ load_frames >= 1
  /\ load_frames < MaxRecursion
  /\ load_frames' = load_frames + 1
  /\ trace' = Append(trace, Ev("LoadCustom", 0, 0, call.from, 0, 0))
  /\ UNCHANGED <<coordination, call, ret, streams, outputs, timeline_points_, rendering>>

SaveCustom ==
  /\ Live
  /\ call' = Ev0("SaveCustom")
  /\ trace' = <<Ev("writeStartElement", 0, 0, "points", 0, 0), Ev0("timeline_points_.Save"),
                Ev0("writeEndElement")>>
  /\ UNCHANGED <<coordination, ret, registry, rendering>>

\* A viewer constructed with or without its default streams.
InitStreams ==
  /\ operation_stack_ = 0
  /\ last_length_ = 0
  /\ video_frame_cache_ = EmptyCache
  /\ audio_playback_cache_ = EmptyCache
  /\ connection = [i \in ConnectableInputs |-> [connected |-> FALSE, length |-> 0]]
  /\ pc = "live"
  /\ unmatched = 0
  /\ call = Ev0("idle")
  /\ trace = <<>>
  /\ ret = NoRet
  /\ \E create_default_streams \in BOOLEAN :
       IF create_default_streams
         THEN /\ \E v \in NullValues(kVideo), a \in NullValues(kAudio) :
                   streams = [t \in Media |-> IF t = kVideo THEN <<v>> ELSE <<a>>]
              /\ outputs = {Reference(kVideo, 0), Reference(kAudio, 0)}
         ELSE /\ streams = [t \in Media |-> <<>>]
              /\ outputs = {}
  /\ timeline_points_ = "empty"
  /\ load_frames = 0
  /\ job = NoJob
  /\ pending = {}
  /\ delivered = <<>>

NextStreams ==
  \/ Idle /\ \E type \in TrackTypes : \E value \in ValuesOf(type) : AddStream(type, value)
  \/ Idle /\ \E type \in Media, new_size \in Sizes : \E fill \in NullValues(type) :
               InputArrayResize(ParamsInput(type), new_size, fill)
  \/ Idle /\ \E old_size \in Sizes, new_size \in Sizes : InputResized(kOtherInput, old_size, new_size)
  \/ ~Idle /\ \E type \in Media, old_size \in Sizes, new_size \in Sizes :
                /\ Notified(ParamsInput(type), old_size, new_size)
                /\ InputResized(ParamsInput(type), old_size, new_size)
  \/ Idle /\ \E display \in Displays : Duration(display)
  \/ Idle /\ Rate
  \/ Idle /\ \E name \in ElementNames : LoadCustom(name)
  \/ LoadCustomRecurse
  \/ Idle /\ SaveCustom
  \/ Return

SpecStreams == InitStreams /\ [][NextStreams]_vars

\* ---------------------------------------------------- render orchestrator
MaxFrames == 2
MaxHash == 1

Timestamps == 0 .. MaxFrames
Hashes == 0 .. MaxHash

\* The requested timestamps that resolved to a content hash.
TimesOf(j, hash) == {t \in j.times : j.hash[t] = hash}

\* The hashes that are rendered: all but those found on disk.
Dispatched(j) == {j.hash[t] : t \in j.times} \ j.disk

\* Variant: a callback that carries one timestamp only.
FrameDownloaded_OneTime(j, hash) ==
  [hash |-> hash, times |-> {CHOOSE t \in TimesOf(j, hash) : TRUE}]

\* FrameDownloaded(hash, times)
FrameDownloaded(j, hash) == [hash |-> hash, times |-> TimesOf(j, hash)]

\* Render(video_range, audio_range, mat, use_disk_cache): the frames of the
\* video range with their hashes; disk holds the hashes already cached.
Render(times, hash, use_disk_cache, disk) ==
  /\ job.state = "none"
  /\ LET j == [state |-> "InProgress", times |-> times, hash |-> hash,
               disk |-> IF use_disk_cache THEN disk ELSE {}]
     IN  /\ pending' = Dispatched(j)
         /\ job' = IF Dispatched(j) = {} THEN [j EXCEPT !.state = "Completed"] ELSE j
  /\ UNCHANGED <<coordination, call, trace, ret, registry, delivered>>

\* The asynchronous unit of one hash completes, in any order.
DownloadFrameFinished(hash) ==
  /\ job.state = "InProgress"
  /\ hash \in pending
  /\ pending' = pending \ {hash}
  /\ delivered' = Append(delivered, FrameDownloaded(job, hash))
  /\ job' = IF pending' = {} THEN [job EXCEPT !.state = "Completed"] ELSE job
  /\ UNCHANGED <<coordination, call, trace, ret, registry>>

NextRender ==
  \/ \E times \in SUBSET Timestamps, use_disk_cache \in BOOLEAN, disk \in SUBSET Hashes :
       \E hash \in [times -> Hashes] : Render(times, hash, use_disk_cache, disk)
  \/ \E hash \in Hashes : DownloadFrameFinished(hash)

SpecRender == Init /\ [][NextRender]_vars

\* ================================================================ claims
IsInvalidate(e) == e.ev = "video.Invalidate" \/ e.ev = "audio.Invalidate"

\* The length a resolve must arrive at: the longest connected producer.
ResolvedLength ==
  LET v == IF connection[kTextureInput].connected THEN connection[kTextureInput].length ELSE 0
      a == IF connection[kSamplesInput].connected THEN connection[kSamplesInput].length ELSE 0
  IN IF v >= a THEN v ELSE a

\* C1: while the operation stack is nonzero, an InvalidateCache event or a
\* VerifyLength call changes neither cache (markers and length), nor the
\* memoized length, and emits no LengthChanged.
C1_SuppressedWhileBatching ==
  [][(operation_stack_ # 0 /\ call'.ev \in {"InvalidateCache", "VerifyLength"})
       => /\ video_frame_cache_' = video_frame_cache_
          /\ audio_playback_cache_' = audio_playback_cache_
          /\ last_length_' = last_length_
          /\ Count(trace', "LengthChanged") = 0]_vars

\* An event on the texture socket over cached time arrived during a batch
\* while the producers' length differed from the memoized one.
C1_Witness ==
  /\ operation_stack_ # 0
  /\ call.ev = "InvalidateCache"
  /\ call.from = kTextureInput
  /\ 0 <= call.in /\ call.in < call.out /\ call.out <= last_length_
  /\ call.job_time # video_frame_cache_.marker[call.in].stamp
  /\ ResolvedLength # last_length_

\* C3: with the operation stack at zero and a non-degenerate clamped range,
\* an event from the texture or video-params socket invalidates the video
\* cache only, one from the samples or audio-params socket the audio cache
\* only, each with the event's job time; any other socket invalidates neither.
C3_RoutedBySocket ==
  [][(call'.ev = "InvalidateCache" /\ operation_stack_ = 0)
       => LET a == Max(0, call'.in)
              b == Min(last_length_, call'.out)
              toVideo == call'.from \in {kTextureInput, kVideoParamsInput}
              toAudio == call'.from \in {kSamplesInput, kAudioParamsInput}
              Hit(c, c2) == \A p \in Points :
                 p < c2.length =>
                   c2.marker[p] = IF a <= p /\ p < b /\ p < c.length
                                    THEN [valid |-> FALSE, stamp |-> call'.job_time]
                                    ELSE c.marker[p]
              Kept(c, c2) == \A p \in Points : p < c2.length => c2.marker[p] = c.marker[p]
          IN a < b =>
               /\ Count(trace', "video.Invalidate") = (IF toVideo THEN 1 ELSE 0)
               /\ Count(trace', "audio.Invalidate") = (IF toAudio THEN 1 ELSE 0)
               /\ \A i \in 1 .. Len(trace') :
                    IsInvalidate(trace'[i]) => trace'[i].job_time = call'.job_time
               /\ IF toVideo THEN Hit(video_frame_cache_, video_frame_cache_')
                             ELSE Kept(video_frame_cache_, video_frame_cache_')
               /\ IF toAudio THEN Hit(audio_playback_cache_, audio_playback_cache_')
                             ELSE Kept(audio_playback_cache_, audio_playback_cache_')]_vars

\* A video-params event wrote its job time into the video cache while the
\* audio cache, which covers the same tick, kept another job time.
C3_Witness ==
  /\ operation_stack_ = 0
  /\ call.ev = "InvalidateCache"
  /\ call.from = kVideoParamsInput
  /\ Count(trace, "video.Invalidate") = 1
  /\ \E p \in Points :
       /\ call.in <= p /\ p < call.out
       /\ p < video_frame_cache_.length /\ p < audio_playback_cache_.length
       /\ video_frame_cache_.marker[p].stamp = call.job_time
       /\ audio_playback_cache_.marker[p].stamp # call.job_time

\* C4: with the operation stack at zero, the range handed to a cache's
\* Invalidate is exactly the intersection of the affected range with
\* [0, current length), and no cache is invalidated when that intersection
\* is empty.
C4_PassesIntersection ==
  [][(call'.ev = "InvalidateCache" /\ operation_stack_ = 0)
       => LET a == Max(0, call'.in)
              b == Min(last_length_, call'.out)
          IN \A i \in 1 .. Len(trace') :
               IsInvalidate(trace'[i]) => (a < b /\ trace'[i].in = a /\ trace'[i].out = b)]_vars

\* C5: a VerifyLength call with the operation stack at zero memoizes the
\* maximum of the candidates (a producer's "length" when connected, else
\* zero) and emits LengthChanged once if that differs from the previous
\* memoized value, not at all otherwise.
C5_ResolvesMaximum ==
  [][(call'.ev = "VerifyLength" /\ operation_stack_ = 0)
       => /\ last_length_' = ResolvedLength
          /\ video_frame_cache_'.length
               = (IF connection[kTextureInput].connected THEN connection[kTextureInput].length ELSE 0)
          /\ audio_playback_cache_'.length
               = (IF connection[kSamplesInput].connected THEN connection[kSamplesInput].length ELSE 0)
          /\ Count(trace', "LengthChanged") = (IF ResolvedLength # last_length_ THEN 1 ELSE 0)]_vars

\* A resolve that changed the length to the audio producer's, the video
\* producer being connected and shorter.
C5_Witness ==
  /\ operation_stack_ = 0
  /\ call.ev = "VerifyLength"
  /\ Count(trace, "LengthChanged") = 1
  /\ connection[kTextureInput].connected /\ connection[kSamplesInput].connected
  /\ connection[kTextureInput].length < connection[kSamplesInput].length
  /\ last_length_ = connection[kSamplesInput].length

\* C6: the EndOperation that brings the operation stack back to zero runs
\* one length re-verification, so the memoized length is the resolved one
\* when it returns.
C6_ReverifiedAtEnd ==
  (call.ev = "EndOperation" /\ operation_stack_ = 0)
    => (Count(trace, "VerifyLength") = 1 /\ last_length_ = ResolvedLength)

\* C7: with the operation stack at zero, every InvalidateCache event runs
\* VerifyLength once, after any cache invalidation, whatever the socket and
\* the clamped range.
C7_AlwaysReverifies ==
  (call.ev = "InvalidateCache" /\ operation_stack_ = 0)
    => /\ Count(trace, "VerifyLength") = 1
       /\ \A i \in 1 .. Len(trace), j \in 1 .. Len(trace) :
            (IsInvalidate(trace[i]) /\ trace[j].ev = "VerifyLength") => i < j
       /\ last_length_ = ResolvedLength

\* An event from an untracked socket, and one with a degenerate range,
\* each changed the memoized length.
C7_Witness ==
  /\ operation_stack_ = 0
  /\ call.ev = "InvalidateCache"
  /\ call.from = kOtherInput \/ call.in = call.out
  /\ Count(trace, "LengthChanged") = 1

\* C8: every InvalidateCache event is forwarded to the base node exactly
\* once, with its original range, socket, element and job time, as the last
\* thing the handler does.
C8_ForwardedUnchanged ==
  call.ev = "InvalidateCache"
    => /\ Count(trace, "super.InvalidateCache") = 1
       /\ trace[Len(trace)]
            = Ev("super.InvalidateCache", call.in, call.out, call.from, call.element, call.job_time)

\* An event reaching outside [0, length) was clamped, invalidated the video
\* cache and changed the length before it was forwarded.
C8_Witness ==
  /\ operation_stack_ = 0
  /\ call.ev = "InvalidateCache"
  /\ call.in < 0
  /\ call.element = 1
  /\ Count(trace, "video.Invalidate") = 1
  /\ Count(trace, "LengthChanged") = 1

\* C9: the operation stack is never negative and equals the number of
\* BeginOperation calls not yet matched by an EndOperation.
C9_NonNegativeCounter == operation_stack_ >= 0 /\ operation_stack_ = unmatched

\* An InvalidateCache event that reached the video cache's Invalidate
\* and left the length as it was.
InvalidatedVideo(c, t) ==
  c.ev = "InvalidateCache" /\ Count(t, "video.Invalidate") = 1 /\ Count(t, "LengthChanged") = 0

\* The ticks both operations cover: the range handed to Invalidate by the
\* event with trace t, which the cache clamps to its length, and the range
\* of the Validate call v.
Overlap(t, v, length) ==
  {p \in Points : /\ \E i \in 1 .. Len(t) :
                       t[i].ev = "video.Invalidate" /\ t[i].in <= p /\ p < t[i].out
                  /\ p < length
                  /\ v.in <= p /\ p < v.out}

Shifted(c, c2, from, to, below) ==
  \A p \in Points :
    /\ p >= to => (IsValid(c2, p) <=> IsValid(c, p - (to - from)))
    /\ p < below => (IsValid(c2, p) <=> IsValid(c, p))

\* C10 as stated: after Shift(from, to), in either direction, validity at
\* p >= to is the old validity at p - (to - from) and validity at p < from
\* is unchanged; ShiftCache shifts both caches alike.
C10_ShiftBelowFrom ==
  [][/\ call'.ev \in {"ShiftVideoCache", "ShiftCache"}
          => Shifted(video_frame_cache_, video_frame_cache_', call'.in, call'.out, call'.in)
     /\ call'.ev \in {"ShiftAudioCache", "ShiftCache"}
          => Shifted(audio_playback_cache_, audio_playback_cache_', call'.in, call'.out, call'.in)]_vars

\* C10 amended: validity is unchanged at every p below both from and to.
C10_ShiftBelowBoth ==
  [][/\ call'.ev \in {"ShiftVideoCache", "ShiftCache"}
          => Shifted(video_frame_cache_, video_frame_cache_', call'.in, call'.out,
                     Min(call'.in, call'.out))
     /\ call'.ev \in {"ShiftAudioCache", "ShiftCache"}
          => Shifted(audio_playback_cache_, audio_playback_cache_', call'.in, call'.out,
                     Min(call'.in, call'.out))]_vars

\* ShiftCache moved rendered content of both caches backward.
C10_Witness ==
  /\ call.ev = "ShiftCache"
  /\ call.out < call.in
  /\ IsValid(video_frame_cache_, call.out)
  /\ IsValid(audio_playback_cache_, call.out)

\* The output sockets of one medium, and the sockets [0, n) of it.
SocketsOf(o, type) == {s \in o : s[1] = type}
Prefix(type, n) == {Reference(type, i) : i \in 0 .. (n - 1)}

\* C11: for each medium the stream output sockets are exactly the indices
\* [0, stream count), after any AddStream calls and array resizes; no socket
\* of a removed index remains.
C11_SocketsMatchStreams ==
  /\ \A type \in Media : SocketsOf(outputs, type) = Prefix(type, Len(streams[type]))
  /\ \A s \in outputs : s[1] \in Media

\* Video streams were added and the array was then cut back to fewer, but
\* not to none.
C11_Witness ==
  /\ call.ev = "InputArrayResize"
  /\ call.from = kVideoParamsInput
  /\ 1 <= call.out /\ call.out < call.in
  /\ Count(trace, "RemoveOutput") = call.in - call.out

\* The position of the first event of a name and index in a trace, 0 if none.
FirstAt(t, name, index) ==
  LET at == {i \in 1 .. Len(t) : t[i].ev = name /\ t[i].in = index}
  IN  IF at = {} THEN 0 ELSE CHOOSE i \in at : \A j \in at : i <= j

\* C12: AddStream on the video or audio medium returns the count before the
\* call, grows that medium by exactly one, keeps the existing entries at
\* their index with their value, leaves the other medium untouched, and
\* creates the output socket of the new index before it writes the value.
C12_AppendsAtEnd ==
  [][(Idle /\ call'.ev = "AddStream" /\ call'.from \in Media)
       => LET type == call'.from
              n == Len(streams[type])
          IN  /\ ret' = Ret("int", n, "", "")
              /\ Len(streams'[type]) = n + 1
              /\ \A i \in 1 .. n : streams'[type][i] = streams[type][i]
              /\ \A other \in Media \ {type} :
                   /\ streams'[other] = streams[other]
                   /\ SocketsOf(outputs', other) = SocketsOf(outputs, other)
              /\ Reference(type, n) \in outputs'
              /\ FirstAt(trace', "AddOutput", n) > 0
              /\ FirstAt(trace', "AddOutput", n) < FirstAt(trace', "SetStandardValue", n)]_vars

\* A second audio stream was added to a viewer that has video streams.
C12_Witness ==
  /\ call.ev = "AddStream"
  /\ call.from = kAudio
  /\ ret.index = 1
  /\ Len(streams[kAudio]) = 2
  /\ Len(streams[kVideo]) >= 1

\* C13: a shrinking resize destroys the output sockets from the topmost
\* index oldSize-1 downward to newSize, so that the sockets left after each
\* removal are a contiguous prefix [0, k).
C13_ShrinksFromTheTop ==
  \A i \in 1 .. Len(trace), j \in 1 .. Len(trace) :
    (i < j /\ trace[i].ev = "RemoveOutput" /\ trace[j].ev = "RemoveOutput"
       /\ trace[i].from = trace[j].from)
      => trace[i].in > trace[j].in

\* C14: handling a resize notification a second time leaves the output
\* sockets as the first handling left them.
C14_RepeatedResizeIdempotent ==
  [][(call'.ev = "InputResized" /\ Notified(call'.from, call'.in, call'.out))
       => outputs' = outputs]_vars

\* A notification of growth was handled once more after it had been served.
C14_Witness ==
  /\ call.ev = "InputResized"
  /\ call.from = kVideoParamsInput
  /\ call.in < call.out
  /\ Count(trace, "AddOutput") = call.out - call.in
  /\ SocketsOf(outputs, kVideo) = Prefix(kVideo, call.out)

\* What duration() and rate() are to report for the streams held.
Reported(c) ==
  LET video == GetFirstEnabledStream(kVideo)
      audio == GetFirstEnabledStream(kAudio)
  IN  IF video.valid /\ ~video.still
        THEN Ret("string", FirstEnabled(kVideo) - 1, kVideo,
                 IF c.ev = "duration" THEN c.from ELSE "FPS")
      ELSE IF audio.valid
        THEN Ret("string", FirstEnabled(kAudio) - 1, kAudio,
                 IF c.ev = "rate" THEN "Hz"
                 ELSE IF c.from \in {kTimecodeDropFrame, kTimecodeNonDropFrame}
                   THEN kTimecodeSeconds ELSE c.from)
      ELSE EmptyString

\* C15: duration() and rate() report the first enabled video stream unless
\* it is a still image, otherwise the first enabled audio stream (duration
\* in seconds instead of a timecode), otherwise an empty string.
C15_VideoThenAudio ==
  call.ev \in {"duration", "rate"} => ret = Reported(call)

\* C16: an assignment of invalid parameters is rejected, so the stream that
\* AddStream has just added does not hold an invalid descriptor.
C16_InvalidRejected ==
  (call.ev = "AddStream" /\ call.from \in Media)
    => streams[call.from][ret.index + 1].valid

\* The callbacks made so far that carry a timestamp.
CallbacksWith(t) == {i \in 1 .. Len(delivered) : t \in delivered[i].times}

\* C17: within a render job FrameDownloaded is invoked at most once per
\* content hash, with all the requested timestamps of that hash, and once
\* the job has completed every rendered timestamp is in exactly one
\* callback, whatever the order of completion.
C17_OneCallbackPerHash ==
  /\ \A i \in 1 .. Len(delivered), k \in 1 .. Len(delivered) :
       delivered[i].hash = delivered[k].hash => i = k
  /\ \A i \in 1 .. Len(delivered) :
       delivered[i].times = {t \in job.times : job.hash[t] = delivered[i].hash}
  /\ \A t \in job.times : Cardinality(CallbacksWith(t)) <= 1
  /\ job.state = "Completed"
       => \A t \in job.times : job.hash[t] \notin job.disk => Cardinality(CallbacksWith(t)) = 1

\* A job completed whose first callback carried two timestamps of one hash
\* and came for a later frame than the second callback.
C17_Witness ==
  /\ job.state = "Completed"
  /\ Len(delivered) = 2
  /\ Cardinality(delivered[1].times) = 2
  /\ \E t \in delivered[1].times, u \in delivered[2].times : u < t

\* C18: LoadCustom terminates: on a "points" element it loads the timeline
\* points and returns true; any other element goes to the base node's
\* loader exactly once and the timeline points stay as they were.
C18_LoadCustomTerminates ==
  call.ev = "LoadCustom"
    => /\ load_frames = 0
       /\ call.from = "points" => (ret = Ret("bool", 1, "", "") /\ timeline_points_ = "loaded")
       /\ call.from # "points" => Count(trace, "super.LoadCustom") = 1

\* C19: every range InvalidateCache passes to the video (respectively the
\* audio) cache lies within [0, the length that cache had when the event
\* arrived].
C19_WithinOwnLength ==
  [][call'.ev = "InvalidateCache"
       => \A i \in 1 .. Len(trace') :
            /\ trace'[i].ev = "video.Invalidate"
                 => (0 <= trace'[i].in /\ trace'[i].out <= video_frame_cache_.length)
            /\ trace'[i].ev = "audio.Invalidate"
                 => (0 <= trace'[i].in /\ trace'[i].out <= audio_playback_cache_.length)]_vars

\* The memoized length is at least the length of either cache.
LengthCoversCaches ==
  /\ last_length_ >= video_frame_cache_.length
  /\ last_length_ >= audio_playback_cache_.length

\* C20: in every reachable state the memoized length is at least the video
\* cache's and the audio cache's length, and the three values change only
\* in a step that runs VerifyLength once, setting both cache lengths, with
\* the operation stack at zero.
C20_LengthMemoized ==
  /\ []LengthCoversCaches
  /\ [][(\/ last_length_' # last_length_
         \/ video_frame_cache_'.length # video_frame_cache_.length
         \/ audio_playback_cache_'.length # audio_playback_cache_.length)
          => /\ operation_stack_ = 0
             /\ call'.ev \in {"VerifyLength", "InvalidateCache"}
             /\ Count(trace', "VerifyLength") = 1
             /\ Count(trace', "video.SetLength") = 1
             /\ Count(trace', "audio.SetLength") = 1]_vars

\* A resolve that found the audio producer longer than the video producer
\* and changed the memoized length.
C20_Witness ==
  /\ call.ev = "VerifyLength"
  /\ Count(trace, "LengthChanged") = 1
  /\ video_frame_cache_.length < audio_playback_cache_.length
  /\ last_length_ = audio_playback_cache_.length

====
